---- MODULE Spec2Model ----
(***************************************************************************)
(* Project Neon: the JNI boundary of src/main/native/neon_jni.c.           *)
(*                                                                         *)
(* Native threads call the C API (neon_client_..., neon_host_...); a call   *)
(* binds its thread to the JVM (get_jni_env) and forwards to the exported  *)
(* JNI entry point, which looks the Java method up and invokes it on the   *)
(* object the handle pins.  One action is one whole C API call.            *)
(*                                                                         *)
(* Integers stand for C values: a handle is its address (NULL = 0), a      *)
(* boolean is 0/1 as jboolean is.  Strings of the address parser are       *)
(* sequences of one-character strings.                                     *)
(***************************************************************************)
EXTENDS Integers, Sequences, FiniteSets, TLC

\* ---------------------------------------------------------------- bounds
NumThreads == 2
MaxHandles == 2
MaxOps == 4
MaxFaults == 1
MaxLen == 4

\* ------------------------------------------------------ program constants
NULL == 0
JNI_FALSE == 0
JNI_TRUE == 1
HostWidth == 255
INT_MAX == 2147483647
TwoTo8 == 256
BufSize == 512

Threads == 1..NumThreads
Handles == 1..MaxHandles

VARIABLES
  g_jvm,              \* static JavaVM *g_jvm: NULL or the VM
  g_neonClientClass,  \* cached global class reference, NULL or set
  g_neonHostClass,    \* cached global class reference, NULL or set
  g_error_buffer,     \* THREAD_LOCAL char[512]: one buffer per thread
  vmSupports18,       \* the VM answers GetEnv(JNI_VERSION_1_8); fixed
  loaded,             \* the VM currently holds the library loaded
  attached,           \* attached[t]: thread t has a JNIEnv in the VM
  pending,            \* pending[t]: a Java exception is pending on t
  handles,            \* handles[h]: the malloc'ed struct at address h
  globalRefs,         \* object references the boundary holds (NewGlobalRef)
  jobj,               \* jobj[o]: the managed NeonClient / NeonHost object
  crashed,            \* the process faulted (an outcome of undefined behaviour)
  nops,               \* number of calls and module loads so far
  faults,             \* number of failures the environment has injected
  freeCalls,          \* freeCalls[h]: free calls made on handle h (2 = more)
  last,               \* what the most recent call did and returned
  addrs,              \* the address strings callers pass
  inflight            \* inflight[t]: the setter call thread t is inside of

vars == <<g_jvm, g_neonClientClass, g_neonHostClass, g_error_buffer,
          vmSupports18, loaded, attached, pending, handles, globalRefs,
          jobj, crashed, nops, faults, freeCalls, last, addrs, inflight>>

\* ------------------------------------------------------------ data model
ClientSlots == {"pong", "sessionConfig", "packetTypeRegistry",
                "unhandledPacket", "wrongDestination"}
HostSlots == {"clientConnect", "clientDeny", "pingReceived", "unhandledPacket"}
Slots(kind) == IF kind = "client" THEN ClientSlots
               ELSE IF kind = "host" THEN HostSlots ELSE {}

\* Function pointers a caller may register (NULL disables the notification).
Callbacks == {NULL, 1}
\* Session ids callers pass (uint32_t).
SessionIds == {[hi |-> 0, lo |-> 42], [hi |-> 65535, lo |-> 65535]}
\* Client names callers pass: NULL or a C string.
Names == {NULL, 1}

\* The memory at address h when no struct is allocated there.
NoStruct == [state |-> "unalloc", kind |-> "none", javaObject |-> NULL,
             cb |-> [s \in {} |-> NULL]]
\* The memory at address h after free(handle): contents are indeterminate.
FreedStruct(kind) == [state |-> "freed", kind |-> kind, javaObject |-> NULL,
                      cb |-> [s \in {} |-> NULL]]
\* struct NeonClientHandle / NeonHostHandle as the New functions fill it in.
NewStruct(kind, obj) == [state |-> "live", kind |-> kind, javaObject |-> obj,
                         cb |-> [s \in Slots(kind) |-> NULL]]

\* A managed object nobody has constructed, and a freshly constructed one.
NoObject == [exists |-> FALSE, connected |-> FALSE, session |-> 0]
NewClientObject == [exists |-> TRUE, connected |-> FALSE, session |-> 0]
NewHostObject(sessionId) == [exists |-> TRUE, connected |-> FALSE,
                             session |-> sessionId]

\* A uint32_t is kept as its two 16-bit halves [hi, lo]; a jint is an integer
\* in -2^31 .. 2^31-1.  The conversions keep the 32 bits and change the reading.
\* The conversion saturating at INT_MAX instead of wrapping.
ToJint_Clamped(u) == IF u.hi >= 32768 THEN INT_MAX ELSE u.hi * 65536 + u.lo
ToJint(u) == IF u.hi >= 32768 THEN (u.hi - 65536) * 65536 + u.lo
             ELSE u.hi * 65536 + u.lo
ToUint32(i) == [hi |-> (i \div 65536) % 65536, lo |-> i % 65536]
ToUint8(i) == i % TwoTo8

\* ---------------------------------------------------------- error channel
\* set_error(msg) with one of the message literals of the file, all of them
\* shorter than the buffer: the text the calling thread's buffer then reads as.
set_error(buf, msg) == msg

\* The same function on the bytes of the buffer.  A byte is a one-character
\* string and NUL the terminator; char g_error_buffer[512] is a sequence of
\* BufSize bytes, a message a sequence of bytes none of which is NUL.
NUL == ""
\* strncpy(dst, src, n): the first n bytes of src, padded with NUL up to n
\* when src is shorter; no terminator is written when src has n bytes or more.
strncpy(dst, src, n) ==
  [i \in 1..Len(dst) |->
     IF i > n THEN dst[i] ELSE IF i <= Len(src) THEN src[i] ELSE NUL]
\* set_error copying sizeof(g_error_buffer) bytes and writing no terminator.
set_error_buffer_Full(buf, msg) == strncpy(buf, msg, BufSize)
\* strncpy(g_error_buffer, msg, sizeof(g_error_buffer) - 1);
\* g_error_buffer[sizeof(g_error_buffer) - 1] = 0;
set_error_buffer(buf, msg) ==
  [strncpy(buf, msg, BufSize - 1) EXCEPT ![BufSize] = NUL]
\* The C string a char array holds: the bytes before the first NUL (all of
\* the array, and whatever follows it in memory, when there is none).
CString(buf) ==
  LET nuls == {i \in 1..Len(buf) : buf[i] = NUL}
  IN IF nuls = {} THEN buf
     ELSE SubSeq(buf, 1, (CHOOSE i \in nuls : \A j \in nuls : i <= j) - 1)
\* neon_get_last_error() on the bytes: NULL when the first byte is NUL.
get_last_error_buffer(buf) ==
  IF buf[1] = NUL THEN [null |-> TRUE, str |-> <<>>]
  ELSE [null |-> FALSE, str |-> CString(buf)]

\* -------------------------------------------------- what one call has done
\* The record of the most recent call, before any call was made.
NoCall == [op |-> "none", t |-> 0, h |-> NULL, ret |-> 0, fail |-> FALSE,
           msg |-> "", jni |-> {}, managed |-> {}, deref |-> FALSE,
           uaf |-> FALSE, dbl |-> FALSE, raised |-> FALSE, args |-> <<>>,
           crash |-> FALSE, inp |-> <<>>]

\* The running account of one C API call on thread t: its return value, the
\* thread-local and shared state as the call leaves them, and a log of what
\* the call touched.
Start(t) ==
  [ret |-> 0, fail |-> FALSE, msg |-> "", buf |-> g_error_buffer[t],
   exc |-> pending[t], att |-> attached[t], jni |-> {}, managed |-> {},
   deref |-> FALSE, uaf |-> FALSE, dbl |-> FALSE, raised |-> FALSE,
   args |-> <<>>, hs |-> handles, refs |-> globalRefs, objs |-> jobj, crash |-> FALSE,
   faults |-> faults, inp |-> <<>>]

\* return v; after emptying the error buffer
ReturnCleared(e, v) == [e EXCEPT !.ret = v, !.buf = ""]
\* return v;
Return(e, v) == [e EXCEPT !.ret = v]
\* set_error(m); return v;
Fail(e, m, v) == [e EXCEPT !.ret = v, !.fail = TRUE, !.msg = m,
                           !.buf = set_error(e.buf, m)]
\* return v; on a failure path that records no message
FailSilent(e, v) == [e EXCEPT !.ret = v, !.fail = TRUE]
\* the process faults
Crash(e) == [e EXCEPT !.crash = TRUE]
\* the call used JNI function f
Used(e, f) == [e EXCEPT !.jni = @ \cup {f}]
\* The environment lets the runtime fail (out of memory, a method that is
\* not there, a Java exception) a bounded number of times: the outcomes S
\* of such a failure, if one more is allowed.
Faulty(e, S) == IF e.faults < MaxFaults
                THEN {[r EXCEPT !.faults = e.faults + 1] : r \in S} ELSE {}

\* ---------------------------------------------------- environment attachment
GetEnv(t) == IF ~vmSupports18 THEN "JNI_EVERSION"
             ELSE IF attached[t] THEN "JNI_OK" ELSE "JNI_EDETACHED"

\* GetEnv on a thread of the VM itself (the one running JNI_OnLoad).
GetEnvVM == IF ~vmSupports18 THEN "JNI_EVERSION" ELSE "JNI_OK"

\* get_jni_env that uses g_jvm without testing it.
get_jni_env_NoVmCheck(t, e) ==
  IF g_jvm = NULL
  THEN {Crash(Used(e, "GetEnv"))}
  ELSE LET e1 == Used(e, "GetEnv") IN
       IF GetEnv(t) = "JNI_EDETACHED"
       THEN LET e2 == Used(e1, "AttachCurrentThread") IN
            {Return([e2 EXCEPT !.att = TRUE], 1)} \cup
            Faulty(e2, {Fail(e2, "Failed to attach thread to JVM", NULL)})
       ELSE IF GetEnv(t) # "JNI_OK"
       THEN {Fail(e1, "Failed to get JNI environment", NULL)}
       ELSE {Return(e1, 1)}
\* get_jni_env that attaches on every call, without asking GetEnv first.
get_jni_env_AlwaysAttach(t, e) ==
  IF g_jvm = NULL
  THEN {Fail(e, "JVM not initialized", NULL)}
  ELSE LET e2 == Used(e, "AttachCurrentThread") IN
       IF ~vmSupports18
       THEN {Fail(e2, "Failed to attach thread to JVM", NULL)}
       ELSE {Return([e2 EXCEPT !.att = TRUE], 1)} \cup
            Faulty(e2, {Fail(e2, "Failed to attach thread to JVM", NULL)})
\* get_jni_env that reports a failed attach by the NULL alone.
get_jni_env_QuietAttach(t, e) ==
  IF g_jvm = NULL
  THEN {Fail(e, "JVM not initialized", NULL)}
  ELSE LET e1 == Used(e, "GetEnv") IN
       IF GetEnv(t) = "JNI_EDETACHED"
       THEN LET e2 == Used(e1, "AttachCurrentThread") IN
            {Return([e2 EXCEPT !.att = TRUE], 1)} \cup
            Faulty(e2, {FailSilent(e2, NULL)})
       ELSE IF GetEnv(t) # "JNI_OK"
       THEN {Fail(e1, "Failed to get JNI environment", NULL)}
       ELSE {Return(e1, 1)}
\* get_jni_env(): the accounts after it; env = NULL is e.ret = NULL.
get_jni_env(t, e) ==
  IF g_jvm = NULL
  THEN {Fail(e, "JVM not initialized", NULL)}
  ELSE LET e1 == Used(e, "GetEnv") IN
       IF GetEnv(t) = "JNI_EDETACHED"
       THEN LET e2 == Used(e1, "AttachCurrentThread") IN
            {Return([e2 EXCEPT !.att = TRUE], 1)} \cup
            Faulty(e2, {Fail(e2, "Failed to attach thread to JVM", NULL)})
       ELSE IF GetEnv(t) # "JNI_OK"
       THEN {Fail(e1, "Failed to get JNI environment", NULL)}
       ELSE {Return(e1, 1)}

\* ------------------------------------------------------- address marshalling
Digits == <<"0", "1", "2", "3", "4", "5", "6", "7", "8", "9">>
IsDigit(c) == \E d \in 1..10 : Digits[d] = c
DigitVal(c) == (CHOOSE d \in 1..10 : Digits[d] = c) - 1
IsSpace(c) == c \in {" ", "\t", "\n", "\r", "\f"}

\* %[^:] with no field width: every byte up to the first colon.
ScanSetEnd_Unbounded(s, i, width) ==
  LET colons == {j \in i..Len(s) : s[j] = ":"}
  IN IF colons = {} THEN Len(s) + 1
     ELSE CHOOSE j \in colons : \A k \in colons : j <= k
\* %255[^:] from position i: the position after the last byte it takes.
ScanSetEnd(s, i, width) ==
  LET limit == IF Len(s) < i + width - 1 THEN Len(s) ELSE i + width - 1
      colons == {j \in i..limit : s[j] = ":"}
  IN IF colons = {} THEN limit + 1
     ELSE CHOOSE j \in colons : \A k \in colons : j <= k

\* %d skips white space before the number.
RECURSIVE SkipSpace(_, _)
SkipSpace(s, i) == IF i <= Len(s) /\ IsSpace(s[i]) THEN SkipSpace(s, i + 1) ELSE i

RECURSIVE DigitsEnd(_, _)
DigitsEnd(s, i) == IF i <= Len(s) /\ IsDigit(s[i]) THEN DigitsEnd(s, i + 1) ELSE i

\* The digits s[i..j-1] as a number; -1 when it does not fit an int.
RECURSIVE DecimalValue(_, _, _, _)
DecimalValue(s, i, j, acc) ==
  IF i >= j THEN acc
  ELSE IF acc > (INT_MAX - DigitVal(s[i])) \div 10 THEN -1
  ELSE DecimalValue(s, i + 1, j, acc * 10 + DigitVal(s[i]))

\* What an int conversion stores when the number does not fit: undefined.
OverflowInts == {-1, 0, INT_MAX}

\* %d from position i: the values it may store, none on a matching failure.
ScanInt(s, i) ==
  LET j == SkipSpace(s, i)
      signed == j <= Len(s) /\ s[j] \in {"-", "+"}
      k == IF signed THEN j + 1 ELSE j
      m == DigitsEnd(s, k)
      v == DecimalValue(s, k, m, 0)
  IN IF m = k THEN {}
     ELSE IF v = -1 THEN OverflowInts
     ELSE IF signed /\ s[j] = "-" THEN {0 - v} ELSE {v}

\* The same scan with a host field one byte narrower, "%254[^:]:%d".
sscanf_addr_Narrow(s) ==
  LET h == ScanSetEnd(s, 1, HostWidth - 1)
      host == SubSeq(s, 1, h - 1)
  IN IF Len(s) = 0 THEN {[n |-> -1, host |-> <<>>, port |-> 0]}
     ELSE IF h = 1 THEN {[n |-> 0, host |-> <<>>, port |-> 0]}
     ELSE IF h > Len(s) \/ s[h] # ":" THEN {[n |-> 1, host |-> host, port |-> 0]}
     ELSE IF ScanInt(s, h + 1) = {} THEN {[n |-> 1, host |-> host, port |-> 0]}
     ELSE {[n |-> 2, host |-> host, port |-> p] : p \in ScanInt(s, h + 1)}
\* sscanf(addrStr, "%255[^:]:%d", host, &port): the number of items assigned
\* (-1 is EOF) with the host and port it leaves.
sscanf_addr(s) ==
  LET h == ScanSetEnd(s, 1, HostWidth)
      host == SubSeq(s, 1, h - 1)
  IN IF Len(s) = 0 THEN {[n |-> -1, host |-> <<>>, port |-> 0]}
     ELSE IF h = 1 THEN {[n |-> 0, host |-> <<>>, port |-> 0]}
     ELSE IF h > Len(s) \/ s[h] # ":" THEN {[n |-> 1, host |-> host, port |-> 0]}
     ELSE IF ScanInt(s, h + 1) = {} THEN {[n |-> 1, host |-> host, port |-> 0]}
     ELSE {[n |-> 2, host |-> host, port |-> p] : p \in ScanInt(s, h + 1)}

\* The text "host:port" a caller builds for a host and a port.
RECURSIVE Decimal(_)
Decimal(n) == IF n < 10 THEN <<Digits[n + 1]>>
              ELSE Decimal(n \div 10) \o <<Digits[(n % 10) + 1]>>
FormatAddr(host, port) == host \o <<":">> \o Decimal(port)

\* ------------------------------------------------------ the managed runtime
\* Values a Java call hands back when it raised: unspecified by JNI.
Unspecified == {0, -1}

\* NewStringUTF / GetStringUTFChars: a string (ret = 1), or NULL with an
\* OutOfMemoryError pending.  NewStringUTF(NULL) is not defined by JNI.
NewStringUTF(e, cstr) ==
  LET e1 == Used(e, "NewStringUTF") IN
  IF cstr = NULL THEN {Crash(e1), Return(e1, NULL)}
  ELSE {Return(e1, 1)} \cup Faulty(e1, {Return([e1 EXCEPT !.exc = TRUE], NULL)})
GetStringUTFChars(e) ==
  LET e1 == Used(e, "GetStringUTFChars") IN
  {Return(e1, 1)} \cup Faulty(e1, {Return([e1 EXCEPT !.exc = TRUE], NULL)})

\* GetMethodID: the id (ret = 1), or NULL with NoSuchMethodError pending.
\* A NULL class is undefined behaviour.
GetMethodID(e, cls) ==
  LET e1 == Used(e, "GetMethodID") IN
  IF cls = NULL THEN {Crash(e1), Return(e1, NULL)}
  ELSE {Return(e1, 1)} \cup Faulty(e1, {Return([e1 EXCEPT !.exc = TRUE], NULL)})

\* What the Java method does to object o when it completes normally:
\* the object afterwards and the value returned.
JavaMethod(o, name, args) ==
  CASE name = "connect" ->
         {[obj |-> [o EXCEPT !.session = args[1]], val |-> 0]}
    [] name = "processPackets" ->
         {[obj |-> o, val |-> 0], [obj |-> [o EXCEPT !.connected = TRUE], val |-> 1]}
    [] name = "getClientId" ->
         {[obj |-> o, val |-> IF o.connected THEN 1 ELSE 0]}
    [] name = "getSessionId" -> {[obj |-> o, val |-> o.session]}
    [] name = "isConnected" ->
         {[obj |-> o, val |-> IF o.connected THEN JNI_TRUE ELSE JNI_FALSE]}
    [] name = "getClientCount" ->
         {[obj |-> o, val |-> IF o.connected THEN 1 ELSE 0]}
    [] name = "close" -> {[obj |-> [o EXCEPT !.connected = FALSE], val |-> 0]}
    [] OTHER -> {[obj |-> o, val |-> 0]}

\* Call<Type>Method(env, ref, method, args...) on a reference value: the
\* method runs and returns, or raises; a reference the boundary does not hold
\* is undefined behaviour.
CallMethod(e, ref, name, args) ==
  LET e1 == [e EXCEPT !.managed = @ \cup {name}, !.args = args]
      raised == {[e1 EXCEPT !.exc = TRUE, !.raised = TRUE, !.ret = v] :
                   v \in Unspecified}
  IN IF ref \in e.refs
     THEN {[e1 EXCEPT !.objs[ref] = r.obj, !.ret = r.val] :
             r \in JavaMethod(e.objs[ref], name, args)} \cup Faulty(e1, raised)
     ELSE {Crash(e1)} \cup raised \cup {[e1 EXCEPT !.ret = v] : v \in Unspecified}

\* handle->javaObject: the values the read may produce.  Reading a struct
\* that was freed is undefined: the process faults or the read yields garbage.
ReadJavaObject(e, h) ==
  IF e.hs[h].state = "live"
  THEN {[e EXCEPT !.deref = TRUE, !.ret = e.hs[h].javaObject]}
  ELSE {Crash([e EXCEPT !.deref = TRUE, !.uaf = TRUE])} \cup
       {[e EXCEPT !.deref = TRUE, !.uaf = TRUE, !.ret = g] : g \in {NULL} \cup Handles}

\* (*env)->Call<Type>Method(env, handle->javaObject, method, args...)
CallOnHandle(e, h, name, args) ==
  UNION { IF r.crash THEN {r} ELSE CallMethod(r, r.ret, name, args) :
          r \in ReadJavaObject(e, h) }

\* ExceptionCheck / ExceptionClear on the calling thread.
ExceptionCheck(e) == e.exc
ExceptionClear(e) == [e EXCEPT !.exc = FALSE]

\* A NULL char pointer, among the address strings.
NullStr == <<"NULL">>

\* -------------------------------------------------- exported JNI entry points
\* Each takes the account e of the call so far (the JNIEnv is the calling
\* thread's) and yields the accounts the function may end in.
\* Then(S, F(_)): continue every account of S that did not fault with F.
Then(S, F(_)) == UNION { IF r.crash THEN {r} ELSE F(r) : r \in S }

\* neonClientNew(env, cls, name); h is the address malloc would hand out.
JNI_neonClientNew(e, name, h) ==
  IF name = NULL THEN {Fail(e, "Client name cannot be null", 0)}
  ELSE LET
    Made(r, alloc) ==
      IF alloc = NULL
      THEN Fail(Used(r, "DeleteLocalRef"), "Failed to allocate client handle", 0)
      ELSE Return([r EXCEPT !.hs[h] = NewStruct("client", h),
                            !.refs = @ \cup {h}, !.jni = @ \cup {"NewGlobalRef"},
                            !.objs[h] = NewClientObject], h)
    MadeNoRef(r) ==
      Return([r EXCEPT !.hs[h] = NewStruct("client", NULL),
                       !.jni = @ \cup {"NewGlobalRef"}], h)
    Construct(r) ==
      IF r.ret = NULL
      THEN {Fail(r, "Failed to find NeonClient constructor", 0)}
      ELSE LET r1 == [r EXCEPT !.jni = @ \cup {"NewObject"},
                               !.managed = @ \cup {"<init>"}]
           IN {Made(r1, h)} \cup
              Faulty(r1, { Fail([r1 EXCEPT !.exc = TRUE, !.raised = TRUE],
                                "Failed to create NeonClient instance", 0),
                           Made(r1, NULL), MadeNoRef(r1) })
    Lookup(r) ==
      IF r.ret = NULL
      THEN {Fail(r, "Failed to get client name string", 0)}
      ELSE Then(GetMethodID(r, g_neonClientClass), Construct)
  IN Then(GetStringUTFChars(e), Lookup)

\* neonClientConnect(env, cls, clientPtr, sessionId, relayAddr)
JNI_neonClientConnect(e, clientPtr, sessionId, relayAddr) ==
  IF clientPtr = 0 THEN {Fail(e, "Invalid client handle", JNI_FALSE)}
  ELSE LET
    Finish(r) ==
      IF ExceptionCheck(r)
      THEN {Fail(ExceptionClear(r), "Exception during connect", JNI_FALSE)}
      ELSE {Return(r, JNI_TRUE)}
    Parsed(r) ==
      UNION { IF a.n # 2
              THEN {Fail(r, "Invalid relay address format (expected host:port)",
                         JNI_FALSE)}
              ELSE LET
                Invoke(r2) ==
                  IF r2.ret = NULL
                  THEN {Fail(r2, "Failed to create host string", JNI_FALSE)}
                  ELSE Then(CallOnHandle(r2, clientPtr, "connect",
                                         <<sessionId, a.host, a.port>>), Finish)
                Host(r1) ==
                  IF r1.ret = NULL
                  THEN {Fail(r1, "Failed to find connect method", JNI_FALSE)}
                  ELSE Then(NewStringUTF(r1, 1), Invoke)
              IN Then(GetMethodID(r, g_neonClientClass), Host)
            : a \in sscanf_addr(relayAddr) }
    Scan(r) ==
      IF r.ret = NULL
      THEN {Fail(r, "Failed to get relay address string", JNI_FALSE)}
      ELSE Parsed(r)
  IN Then(GetStringUTFChars(e), Scan)

\* neonClientProcessPackets / neonHostProcessPackets(env, cls, ptr): the two
\* differ in the cached class and in the text of the null-handle message.
JNI_ProcessPackets(e, ptr, cls, invalid) ==
  IF ptr = 0 THEN {Fail(e, invalid, -1)}
  ELSE LET
    Finish(r) ==
      IF ExceptionCheck(r)
      THEN {Fail(ExceptionClear(r), "Exception during processPackets", -1)}
      ELSE {Return(r, r.ret)}
    Invoke(r) ==
      IF r.ret = NULL
      THEN {Fail(r, "Failed to find processPackets method", -1)}
      ELSE Then(CallOnHandle(r, ptr, "processPackets", <<>>), Finish)
  IN Then(GetMethodID(e, cls), Invoke)
JNI_neonClientProcessPackets(e, clientPtr) ==
  JNI_ProcessPackets(e, clientPtr, g_neonClientClass, "Invalid client handle")
JNI_neonHostProcessPackets(e, hostPtr) ==
  JNI_ProcessPackets(e, hostPtr, g_neonHostClass, "Invalid host handle")

\* The int getters: no handle or no method is -1 (0 for the client count)
\* with a message; the Java result is returned with no exception check.
JNI_IntGetter(e, ptr, cls, invalid, name, notfound, sentinel) ==
  IF ptr = 0 THEN {Fail(e, invalid, sentinel)}
  ELSE LET
    Invoke(r) ==
      IF r.ret = NULL
      THEN {Fail(r, notfound, sentinel)}
      ELSE CallOnHandle(r, ptr, name, <<>>)
  IN Then(GetMethodID(e, cls), Invoke)
\* neonClientGetId answering 0 when it is given no handle.
JNI_neonClientGetId_Zero(e, clientPtr) ==
  JNI_IntGetter(e, clientPtr, g_neonClientClass, "Invalid client handle",
                "getClientId", "Failed to find getClientId method", 0)
JNI_neonClientGetId(e, clientPtr) ==
  JNI_IntGetter(e, clientPtr, g_neonClientClass, "Invalid client handle",
                "getClientId", "Failed to find getClientId method", -1)
JNI_neonClientGetSessionId(e, clientPtr) ==
  JNI_IntGetter(e, clientPtr, g_neonClientClass, "Invalid client handle",
                "getSessionId", "Failed to find getSessionId method", -1)
JNI_neonHostGetSessionId(e, hostPtr) ==
  JNI_IntGetter(e, hostPtr, g_neonHostClass, "Invalid host handle",
                "getSessionId", "Failed to find getSessionId method", -1)
JNI_neonHostGetClientCount(e, hostPtr) ==
  JNI_IntGetter(e, hostPtr, g_neonHostClass, "Invalid host handle",
                "getClientCount", "Failed to find getClientCount method", 0)

\* neonClientIsConnected(env, cls, clientPtr): fails without a message.
JNI_neonClientIsConnected(e, clientPtr) ==
  IF clientPtr = 0 THEN {FailSilent(e, JNI_FALSE)}
  ELSE LET
    Invoke(r) ==
      IF r.ret = NULL THEN {FailSilent(r, JNI_FALSE)}
      ELSE CallOnHandle(r, clientPtr, "isConnected", <<>>)
  IN Then(GetMethodID(e, g_neonClientClass), Invoke)

\* neonClientSendPing / neonHostStart(env, cls, ptr): a void Java call with
\* the exception check.
JNI_VoidChecked(e, ptr, cls, invalid, name, notfound, raised) ==
  IF ptr = 0 THEN {Fail(e, invalid, JNI_FALSE)}
  ELSE LET
    Finish(r) ==
      IF ExceptionCheck(r)
      THEN {Fail(ExceptionClear(r), raised, JNI_FALSE)}
      ELSE {Return(r, JNI_TRUE)}
    Invoke(r) ==
      IF r.ret = NULL THEN {Fail(r, notfound, JNI_FALSE)}
      ELSE Then(CallOnHandle(r, ptr, name, <<>>), Finish)
  IN Then(GetMethodID(e, cls), Invoke)
JNI_neonClientSendPing(e, clientPtr) ==
  JNI_VoidChecked(e, clientPtr, g_neonClientClass, "Invalid client handle",
                  "sendPing", "Failed to find sendPing method",
                  "Exception during sendPing")
JNI_neonHostStart(e, hostPtr) ==
  JNI_VoidChecked(e, hostPtr, g_neonHostClass, "Invalid host handle",
                  "start", "Failed to find start method",
                  "Exception during start")

\* neonClientSetAutoPing(env, cls, clientPtr, enabled): void, unchecked.
JNI_neonClientSetAutoPing(e, clientPtr, enabled) ==
  IF clientPtr = 0 THEN {Fail(e, "Invalid client handle", 0)}
  ELSE LET
    Invoke(r) ==
      IF r.ret = NULL THEN {Fail(r, "Failed to find setAutoPing method", 0)}
      ELSE {Return(c, 0) : c \in CallOnHandle(r, clientPtr, "setAutoPing",
                                               <<enabled>>)}
  IN Then(GetMethodID(e, g_neonClientClass), Invoke)

\* neonClientSet<Slot>Callback / neonHostSet<Slot>Callback(env, cls, ptr,
\* callback): handle-><slot>Callback = callback.  A store into a freed
\* struct is undefined: the process faults or the store is lost.
\* The setter returning on no handle without a message.
JNI_SetCallback_Silent(e, ptr, slot, callback, invalid) ==
  IF ptr = 0 THEN {Return(e, 0)}
  ELSE IF e.hs[ptr].state = "live"
  THEN {Return([e EXCEPT !.deref = TRUE, !.hs[ptr].cb[slot] = callback], 0)}
  ELSE LET e1 == [e EXCEPT !.deref = TRUE, !.uaf = TRUE]
       IN {Crash(e1), Return(e1, 0)}
\* The setter writing the whole callback table, the other slots as NULL.
JNI_SetCallback_Reset(e, ptr, slot, callback, invalid) ==
  IF ptr = 0 THEN {Fail(e, invalid, 0)}
  ELSE IF e.hs[ptr].state = "live"
  THEN {Return([e EXCEPT !.deref = TRUE,
                         !.hs[ptr].cb = [s \in DOMAIN @ |->
                                           IF s = slot THEN callback ELSE NULL]], 0)}
  ELSE LET e1 == [e EXCEPT !.deref = TRUE, !.uaf = TRUE]
       IN {Crash(e1), Return(e1, 0)}
JNI_SetCallback(e, ptr, slot, callback, invalid) ==
  IF ptr = 0 THEN {Fail(e, invalid, 0)}
  ELSE IF e.hs[ptr].state = "live"
  THEN {Return([e EXCEPT !.deref = TRUE, !.hs[ptr].cb[slot] = callback], 0)}
  ELSE LET e1 == [e EXCEPT !.deref = TRUE, !.uaf = TRUE]
       IN {Crash(e1), Return(e1, 0)}
JNI_neonClientSetCallback(e, clientPtr, slot, callback) ==
  JNI_SetCallback(e, clientPtr, slot, callback, "Invalid client handle")
JNI_neonHostSetCallback(e, hostPtr, slot, callback) ==
  JNI_SetCallback(e, hostPtr, slot, callback, "Invalid host handle")

\* DeleteGlobalRef(env, ref): NULL is allowed; a reference the boundary no
\* longer holds is released a second time, which is undefined.
DeleteGlobalRef(e, ref) ==
  LET e1 == Used(e, "DeleteGlobalRef") IN
  IF ref = NULL THEN {e1}
  ELSE IF ref \in e.refs
  THEN {[e1 EXCEPT !.refs = @ \ {ref}, !.objs[ref] = NoObject]}
  ELSE LET e2 == [e1 EXCEPT !.dbl = TRUE] IN {Crash(e2), e2}

\* free(handle): freeing twice is undefined.
free(e, h) ==
  IF e.hs[h].state = "live"
  THEN {[e EXCEPT !.hs[h] = FreedStruct(e.hs[h].kind)]}
  ELSE LET e1 == [e EXCEPT !.dbl = TRUE] IN {Crash(e1), e1}

\* neonClientFree / neonHostFree(env, cls, ptr)
JNI_Free(e, ptr, cls) ==
  IF ptr = 0 THEN {Return(e, 0)}
  ELSE LET
    Dealloc(r) == {Return(f, 0) : f \in free(r, ptr)}
    Delete(r) == Then(DeleteGlobalRef(r, r.ret), Dealloc)
    Release(r) == Then(ReadJavaObject(r, ptr), Delete)
    Swallow(r) == IF ExceptionCheck(r) THEN {ExceptionClear(r)} ELSE {r}
    Close(r) ==
      IF r.ret # NULL
      THEN Then(CallOnHandle(r, ptr, "close", <<>>), Swallow)
      ELSE {r}
  IN Then(Then(GetMethodID(e, cls), Close), Release)
JNI_neonClientFree(e, clientPtr) == JNI_Free(e, clientPtr, g_neonClientClass)
JNI_neonHostFree(e, hostPtr) == JNI_Free(e, hostPtr, g_neonHostClass)

\* neonHostNew(env, cls, sessionId, relayAddr); h is the address malloc
\* would hand out.
JNI_neonHostNew(e, sessionId, relayAddr, h) ==
  IF relayAddr = NullStr THEN {Fail(e, "Relay address cannot be null", 0)}
  ELSE LET
    Made(r, alloc) ==
      IF alloc = NULL
      THEN Fail(Used(r, "DeleteLocalRef"), "Failed to allocate host handle", 0)
      ELSE Return([r EXCEPT !.hs[h] = NewStruct("host", h),
                            !.refs = @ \cup {h}, !.jni = @ \cup {"NewGlobalRef"},
                            !.objs[h] = NewHostObject(sessionId)], h)
    MadeNoRef(r) ==
      Return([r EXCEPT !.hs[h] = NewStruct("host", NULL),
                       !.jni = @ \cup {"NewGlobalRef"}], h)
    Parsed(r) ==
      UNION { IF a.n # 2
              THEN {Fail(r, "Invalid relay address format (expected host:port)", 0)}
              ELSE LET
                Construct(r2) ==
                  IF r2.ret = NULL
                  THEN {Fail(r2, "Failed to create host string", 0)}
                  ELSE LET r3 == [r2 EXCEPT !.jni = @ \cup {"NewObject"},
                                            !.managed = @ \cup {"<init>"},
                                            !.args = <<sessionId, a.host, a.port>>]
                       IN {Made(r3, h)} \cup
                          Faulty(r3, { Fail([r3 EXCEPT !.exc = TRUE, !.raised = TRUE],
                                            "Failed to create NeonHost instance", 0),
                                       Made(r3, NULL), MadeNoRef(r3) })
                Host(r1) ==
                  IF r1.ret = NULL
                  THEN {Fail(r1, "Failed to find NeonHost constructor", 0)}
                  ELSE Then(NewStringUTF(r1, 1), Construct)
              IN Then(GetMethodID(r, g_neonHostClass), Host)
            : a \in sscanf_addr(relayAddr) }
    Scan(r) ==
      IF r.ret = NULL
      THEN {Fail(r, "Failed to get relay address string", 0)}
      ELSE Parsed(r)
  IN Then(GetStringUTFChars(e), Scan)

\* ------------------------------------------------------------------ C API
\* size_t from a jint: sign-extended to 64 bits; kept as the extension bit
\* and the low 32 bits.
ToSizeT(i) == [ext |-> IF i < 0 THEN 1 ELSE 0, low |-> ToUint32(i)]
\* The C string pointer handed to NewStringUTF.
CStr(s) == IF s = NullStr THEN NULL ELSE 1

\* The shape every handle-taking function shares:
\*   if (ptr == NULL) <onNull>;  env = get_jni_env();
\*   if (env == NULL) return sentinel;  return Body(env, ptr);
Forward(t, ptr, onNull, sentinel, Body(_)) ==
  IF ptr = NULL THEN {onNull}
  ELSE LET WithEnv(r) == IF r.ret = NULL THEN {Return(r, sentinel)} ELSE Body(r)
       IN Then(get_jni_env(t, Start(t)), WithEnv)

\* The value a function returns, converted to its C return type.
Cast(S, F(_)) == {Return(r, F(r.ret)) : r \in S}
IsTrue(v) == IF v = JNI_TRUE THEN 1 ELSE 0
Void(v) == 0

neon_client_new(t, name, h) ==
  LET Str(r) ==
        IF r.ret = NULL THEN {Fail(r, "Failed to create name string", NULL)}
        ELSE {Used(c, "DeleteLocalRef") : c \in JNI_neonClientNew(r, 1, h)}
      WithEnv(r) == IF r.ret = NULL THEN {Return(r, NULL)}
                    ELSE Then(NewStringUTF(r, name), Str)
  IN Then(get_jni_env(t, Start(t)), WithEnv)

neon_client_connect(t, client, session_id, relay_addr) ==
  LET Str(r) ==
        IF r.ret = NULL
        THEN {Fail(r, "Failed to create relay address string", 0)}
        ELSE Cast(JNI_neonClientConnect(r, client, ToJint(session_id), relay_addr),
                  IsTrue)
      Body(r) == Then(NewStringUTF(r, CStr(relay_addr)), Str)
  IN Forward(t, client, Fail(Start(t), "Invalid client handle", 0), 0, Body)

\* neon_client_process_packets with the binding fetched before the handle is
\* looked at.
process_packets_EnvFirst(t, client) ==
  LET WithEnv(r) ==
        IF client = NULL THEN {Fail(r, "Invalid client handle", -1)}
        ELSE IF r.ret = NULL THEN {Return(r, -1)}
        ELSE JNI_neonClientProcessPackets(r, client)
  IN Then(get_jni_env(t, Start(t)), WithEnv)
neon_client_process_packets(t, client) ==
  Forward(t, client, Fail(Start(t), "Invalid client handle", -1), -1,
          LAMBDA r : JNI_neonClientProcessPackets(r, client))

neon_client_get_id(t, client) ==
  Forward(t, client, FailSilent(Start(t), 0), 0,
          LAMBDA r : Cast(JNI_neonClientGetId(r, client), ToUint8))

neon_client_get_session_id(t, client) ==
  Forward(t, client, FailSilent(Start(t), ToUint32(0)), ToUint32(0),
          LAMBDA r : Cast(JNI_neonClientGetSessionId(r, client), ToUint32))

neon_client_is_connected(t, client) ==
  Forward(t, client, FailSilent(Start(t), 0), 0,
          LAMBDA r : Cast(JNI_neonClientIsConnected(r, client), IsTrue))

neon_client_send_ping(t, client) ==
  Forward(t, client, Fail(Start(t), "Invalid client handle", 0), 0,
          LAMBDA r : Cast(JNI_neonClientSendPing(r, client), IsTrue))

neon_client_set_auto_ping(t, client, enabled) ==
  Forward(t, client, FailSilent(Start(t), 0), 0,
          LAMBDA r : JNI_neonClientSetAutoPing(r, client, enabled))

\* neon_client_set_<slot>_callback, one function per slot
neon_client_set_callback(t, client, slot, callback) ==
  Forward(t, client, FailSilent(Start(t), 0), 0,
          LAMBDA r : JNI_neonClientSetCallback(r, client, slot, callback))

neon_client_free(t, client) ==
  Forward(t, client, Return(Start(t), 0), 0,
          LAMBDA r : JNI_neonClientFree(r, client))

neon_host_new(t, session_id, relay_addr, h) ==
  LET Str(r) ==
        IF r.ret = NULL
        THEN {Fail(r, "Failed to create relay address string", NULL)}
        ELSE {Used(c, "DeleteLocalRef") :
                c \in JNI_neonHostNew(r, ToJint(session_id), relay_addr, h)}
      WithEnv(r) == IF r.ret = NULL THEN {Return(r, NULL)}
                    ELSE Then(NewStringUTF(r, CStr(relay_addr)), Str)
  IN Then(get_jni_env(t, Start(t)), WithEnv)

\* neon_host_start with the binding fetched before the handle is looked at.
neon_host_start_EnvFirst(t, host) ==
  LET WithEnv(r) ==
        IF host = NULL THEN {Fail(r, "Invalid host handle", 0)}
        ELSE IF r.ret = NULL THEN {Return(r, 0)}
        ELSE Cast(JNI_neonHostStart(r, host), IsTrue)
  IN Then(get_jni_env(t, Start(t)), WithEnv)
neon_host_start(t, host) ==
  Forward(t, host, Fail(Start(t), "Invalid host handle", 0), 0,
          LAMBDA r : Cast(JNI_neonHostStart(r, host), IsTrue))

neon_host_process_packets(t, host) ==
  Forward(t, host, Fail(Start(t), "Invalid host handle", -1), -1,
          LAMBDA r : JNI_neonHostProcessPackets(r, host))

neon_host_get_session_id(t, host) ==
  Forward(t, host, FailSilent(Start(t), ToUint32(0)), ToUint32(0),
          LAMBDA r : Cast(JNI_neonHostGetSessionId(r, host), ToUint32))

neon_host_get_client_count(t, host) ==
  Forward(t, host, FailSilent(Start(t), ToSizeT(0)), ToSizeT(0),
          LAMBDA r : Cast(JNI_neonHostGetClientCount(r, host), ToSizeT))

\* neon_host_set_<slot>_callback, one function per slot
neon_host_set_callback(t, host, slot, callback) ==
  Forward(t, host, FailSilent(Start(t), 0), 0,
          LAMBDA r : JNI_neonHostSetCallback(r, host, slot, callback))

neon_host_free(t, host) ==
  Forward(t, host, Return(Start(t), 0), 0,
          LAMBDA r : JNI_neonHostFree(r, host))

\* neon_get_last_error(): NULL when the buffer starts with the terminator.
neon_get_last_error(t) ==
  IF g_error_buffer[t] = ""
  THEN [null |-> TRUE, str |-> ""]
  ELSE [null |-> FALSE, str |-> g_error_buffer[t]]

\* ------------------------------------------------------------ module load
CanCall == ~crashed /\ nops < MaxOps

\* JNI_OnLoad(vm, reserved), run by the VM on the loading thread.  FindClass
\* finds the class or not; NewGlobalRef yields a reference or NULL.
JNI_OnLoad ==
  /\ CanCall /\ ~loaded
  /\ nops' = nops + 1
  /\ g_jvm' = 1
  /\ \/ /\ GetEnvVM # "JNI_OK"
        /\ UNCHANGED <<g_neonClientClass, g_neonHostClass, loaded, faults>>
     \/ /\ GetEnvVM = "JNI_OK" /\ faults < MaxFaults
        /\ faults' = faults + 1
        /\ UNCHANGED <<g_neonClientClass, g_neonHostClass, loaded>>
     \/ /\ GetEnvVM = "JNI_OK" /\ faults < MaxFaults
        /\ faults' = faults + 1
        /\ g_neonClientClass' = 1
        /\ UNCHANGED <<g_neonHostClass, loaded>>
     \/ /\ GetEnvVM = "JNI_OK" /\ faults < MaxFaults
        /\ faults' = faults + 1
        /\ \/ g_neonClientClass' = NULL /\ g_neonHostClass' = 1
           \/ g_neonClientClass' = 1 /\ g_neonHostClass' = NULL
        /\ loaded' = TRUE
     \/ /\ GetEnvVM = "JNI_OK"
        /\ g_neonClientClass' = 1
        /\ g_neonHostClass' = 1
        /\ loaded' = TRUE
        /\ UNCHANGED faults
  /\ last' = [NoCall EXCEPT !.op = "JNI_OnLoad", !.fail = ~loaded']
  /\ UNCHANGED <<g_error_buffer, vmSupports18, attached, pending, handles,
                 globalRefs, jobj, crashed, freeCalls, addrs, inflight>>

\* JNI_OnUnload(vm, reserved), run by the VM when it drops the library.
JNI_OnUnload ==
  /\ CanCall /\ loaded
  /\ nops' = nops + 1
  /\ IF GetEnvVM = "JNI_OK"
     THEN g_neonClientClass' = NULL /\ g_neonHostClass' = NULL
     ELSE UNCHANGED <<g_neonClientClass, g_neonHostClass>>
  /\ g_jvm' = NULL
  /\ loaded' = FALSE
  /\ last' = [NoCall EXCEPT !.op = "JNI_OnUnload"]
  /\ UNCHANGED <<g_error_buffer, vmSupports18, attached, pending, handles,
                 globalRefs, jobj, crashed, faults, freeCalls, addrs, inflight>>

\* A thread that is inside no call, and all threads so.
Outside == [op |-> "none", h |-> NULL, slot |-> "", p |-> NULL]
Idle == [t \in Threads |-> Outside]

\* ------------------------------------------------------------ one API call
\* g_error_buffer is THREAD_LOCAL: a call's set_error lands in the buffer of
\* the thread that made the call.
\* One buffer shared by every thread, as without THREAD_LOCAL.
StoreErrorShared(t, buf) == [u \in Threads |-> buf]
StoreError(t, buf) == [g_error_buffer EXCEPT ![t] = buf]

\* Thread t's call op(h, ...) ends in account e.
Effect(t, op, h, e) ==
  /\ nops' = nops + 1
  /\ faults' = e.faults
  /\ freeCalls' = IF op \in {"client_free", "host_free"} /\ h # NULL
                  THEN [freeCalls EXCEPT ![h] = IF @ = 0 THEN 1 ELSE 2]
                  ELSE freeCalls
  /\ last' = [op |-> op, t |-> t, h |-> h,
              ret |-> IF e.crash THEN 0 ELSE e.ret,
              fail |-> e.fail, msg |-> e.msg, jni |-> e.jni,
              managed |-> e.managed, deref |-> e.deref, uaf |-> e.uaf,
              dbl |-> e.dbl, raised |-> e.raised, args |-> e.args,
              crash |-> e.crash, inp |-> e.inp]
  /\ IF e.crash
     THEN /\ crashed' = TRUE
          /\ UNCHANGED <<g_error_buffer, attached, pending, handles,
                         globalRefs, jobj>>
     ELSE /\ crashed' = FALSE
          /\ g_error_buffer' = StoreError(t, e.buf)
          /\ attached' = [attached EXCEPT ![t] = e.att]
          /\ pending' = [pending EXCEPT ![t] = e.exc]
          /\ handles' = e.hs
          /\ globalRefs' = e.refs
          /\ jobj' = e.objs
  /\ UNCHANGED <<g_jvm, g_neonClientClass, g_neonHostClass, vmSupports18,
                 loaded, addrs>>
\* A call that runs from entry to return with no other call in between.
Commit(t, op, h, e) == Effect(t, op, h, e) /\ UNCHANGED inflight


\* The handles a caller can pass to a function of the given kind: NULL or a
\* pointer a create call of that kind returned (freed since, or not).
Held(kind) == {NULL} \cup {h \in Handles : handles[h].kind = kind}
\* The address the next malloc hands out.
Fresh == {h \in Handles : handles[h].state = "unalloc"}

ClientNew ==
  /\ CanCall
  /\ \E t \in Threads, name \in Names, h \in Fresh :
       \E e \in neon_client_new(t, name, h) : Commit(t, "client_new", NULL, e)
ClientConnect ==
  /\ CanCall
  /\ \E t \in Threads, h \in Held("client"), sid \in SessionIds, a \in addrs :
       \E e \in neon_client_connect(t, h, sid, a) :
         Commit(t, "client_connect", h, [e EXCEPT !.inp = <<sid>>])
ClientProcessPackets ==
  /\ CanCall
  /\ \E t \in Threads, h \in Held("client") :
       \E e \in neon_client_process_packets(t, h) :
         Commit(t, "client_process_packets", h, e)
ClientGetId ==
  /\ CanCall
  /\ \E t \in Threads, h \in Held("client") :
       \E e \in neon_client_get_id(t, h) : Commit(t, "client_get_id", h, e)
ClientGetSessionId ==
  /\ CanCall
  /\ \E t \in Threads, h \in Held("client") :
       \E e \in neon_client_get_session_id(t, h) :
         Commit(t, "client_get_session_id", h, e)
ClientIsConnected ==
  /\ CanCall
  /\ \E t \in Threads, h \in Held("client") :
       \E e \in neon_client_is_connected(t, h) :
         Commit(t, "client_is_connected", h, e)
ClientSendPing ==
  /\ CanCall
  /\ \E t \in Threads, h \in Held("client") :
       \E e \in neon_client_send_ping(t, h) :
         Commit(t, "client_send_ping", h, e)
ClientSetAutoPing ==
  /\ CanCall
  /\ \E t \in Threads, h \in Held("client"), on \in {JNI_FALSE, JNI_TRUE} :
       \E e \in neon_client_set_auto_ping(t, h, on) :
         Commit(t, "client_set_auto_ping", h, e)
ClientSetCallback ==
  /\ CanCall
  /\ \E t \in Threads, h \in Held("client"), s \in ClientSlots, f \in Callbacks :
       \E e \in neon_client_set_callback(t, h, s, f) :
         Commit(t, "client_set_callback", h, [e EXCEPT !.args = <<s, f>>])
ClientFree ==
  /\ CanCall
  /\ \E t \in Threads, h \in Held("client") :
       \E e \in neon_client_free(t, h) : Commit(t, "client_free", h, e)
HostNew ==
  /\ CanCall
  /\ \E t \in Threads, sid \in SessionIds, a \in addrs, h \in Fresh :
       \E e \in neon_host_new(t, sid, a, h) :
         Commit(t, "host_new", NULL, [e EXCEPT !.inp = <<sid>>])
HostStart ==
  /\ CanCall
  /\ \E t \in Threads, h \in Held("host") :
       \E e \in neon_host_start(t, h) : Commit(t, "host_start", h, e)
HostProcessPackets ==
  /\ CanCall
  /\ \E t \in Threads, h \in Held("host") :
       \E e \in neon_host_process_packets(t, h) :
         Commit(t, "host_process_packets", h, e)
HostGetSessionId ==
  /\ CanCall
  /\ \E t \in Threads, h \in Held("host") :
       \E e \in neon_host_get_session_id(t, h) :
         Commit(t, "host_get_session_id", h, e)
HostGetClientCount ==
  /\ CanCall
  /\ \E t \in Threads, h \in Held("host") :
       \E e \in neon_host_get_client_count(t, h) :
         Commit(t, "host_get_client_count", h, e)
HostSetCallback ==
  /\ CanCall
  /\ \E t \in Threads, h \in Held("host"), s \in HostSlots, f \in Callbacks :
       \E e \in neon_host_set_callback(t, h, s, f) :
         Commit(t, "host_set_callback", h, [e EXCEPT !.args = <<s, f>>])
HostFree ==
  /\ CanCall
  /\ \E t \in Threads, h \in Held("host") :
       \E e \in neon_host_free(t, h) : Commit(t, "host_free", h, e)
GetLastError ==
  /\ CanCall
  /\ \E t \in Threads :
       Commit(t, "get_last_error", NULL, Return(Start(t), neon_get_last_error(t)))

\* ------------------------------------------------------------ specification
\* The address strings of the main specification: well formed, malformed,
\* and the NULL pointer.
Addrs == {<<"a", ":", "1">>, <<"a">>, NullStr}

Init ==
  /\ g_jvm = NULL
  /\ g_neonClientClass = NULL
  /\ g_neonHostClass = NULL
  /\ g_error_buffer = [t \in Threads |-> ""]
  /\ vmSupports18 \in BOOLEAN
  /\ loaded = FALSE
  /\ attached = [t \in Threads |-> FALSE]
  /\ pending = [t \in Threads |-> FALSE]
  /\ handles = [h \in Handles |-> NoStruct]
  /\ globalRefs = {}
  /\ jobj = [h \in Handles |-> NoObject]
  /\ crashed = FALSE
  /\ nops = 0
  /\ faults = 0
  /\ freeCalls = [h \in Handles |-> 0]
  /\ last = NoCall
  /\ addrs = Addrs
  /\ inflight = Idle

Next ==
  \/ JNI_OnLoad
  \/ JNI_OnUnload
  \/ ClientNew
  \/ ClientConnect
  \/ ClientProcessPackets
  \/ ClientGetId
  \/ ClientGetSessionId
  \/ ClientIsConnected
  \/ ClientSendPing
  \/ ClientSetAutoPing
  \/ ClientSetCallback
  \/ ClientFree
  \/ HostNew
  \/ HostStart
  \/ HostProcessPackets
  \/ HostGetSessionId
  \/ HostGetClientCount
  \/ HostSetCallback
  \/ HostFree
  \/ GetLastError

Spec == Init /\ [][Next]_vars

\* --------------------------------------- specification of address parsing
\* One connect or create-host call on an initialised runtime, for each
\* address string of a bounded set: every string of at most MaxLen bytes
\* over Alphabet, and the text "host:port" for the hosts and ports below.
Alphabet == {"a", ":", "7", "-", "+", " "}
RECURSIVE StringsUpTo(_)
StringsUpTo(n) ==
  IF n = 0 THEN {<<>>}
  ELSE LET S == StringsUpTo(n - 1)
       IN S \cup {Append(x, c) : x \in {y \in S : Len(y) = n - 1}, c \in Alphabet}
Repeat(c, n) == [i \in 1..n |-> c]
Hosts == {<<>>, <<"a">>, <<"a", "b">>, <<" ", "a">>, <<"1", "0">>,
          <<"a", ":", "b">>, <<"a", ":", "1">>, <<":">>,
          Repeat("a", HostWidth - 1), Repeat("a", HostWidth),
          Repeat("a", HostWidth + 1)}
Ports == {0, 1, 9, 10, 80, 7777, 32767, 32768, 65535}
Formatted == {[host |-> h, port |-> p, text |-> FormatAddr(h, p)] :
                h \in Hosts, p \in Ports}
ParseInputs == StringsUpTo(MaxLen) \cup {x.text : x \in Formatted}
                 \cup {<<"a", ":", "9", "9", "9", "9", "9", "9", "9", "9", "9", "9">>,
                       <<"a", ":", "7", "0", "0", "0", "0">>}

InitParse ==
  /\ g_jvm = 1
  /\ g_neonClientClass = 1
  /\ g_neonHostClass = 1
  /\ g_error_buffer = [t \in Threads |-> ""]
  /\ vmSupports18 = TRUE
  /\ loaded = TRUE
  /\ attached = [t \in Threads |-> t = 1]
  /\ pending = [t \in Threads |-> FALSE]
  /\ handles = [h \in Handles |-> IF h = 1 THEN NewStruct("client", 1) ELSE NoStruct]
  /\ globalRefs = {1}
  /\ jobj = [h \in Handles |-> IF h = 1 THEN NewClientObject ELSE NoObject]
  /\ crashed = FALSE
  /\ nops = MaxOps - 1
  /\ faults = 0
  /\ freeCalls = [h \in Handles |-> 0]
  /\ last = NoCall
  /\ addrs \in {{a} : a \in ParseInputs}
  /\ inflight = Idle

NextParse ==
  \/ ClientConnect
  \/ HostNew

SpecParse == InitParse /\ [][NextParse]_vars

\* ------------------------- specification of two threads and two handles
\* The runtime is loaded and a client and a host have been created; the
\* threads then call process_packets and read the error channel in any order.
InitPair ==
  /\ g_jvm = 1
  /\ g_neonClientClass = 1
  /\ g_neonHostClass = 1
  /\ g_error_buffer = [t \in Threads |-> ""]
  /\ vmSupports18 = TRUE
  /\ loaded = TRUE
  /\ attached \in [Threads -> BOOLEAN]
  /\ pending = [t \in Threads |-> FALSE]
  /\ handles = [h \in Handles |-> IF h = 1 THEN NewStruct("client", 1)
                                  ELSE IF h = 2 THEN NewStruct("host", 2)
                                  ELSE NoStruct]
  /\ globalRefs = {1, 2}
  /\ jobj = [h \in Handles |-> IF h = 1 THEN NewClientObject
                               ELSE IF h = 2 THEN NewHostObject(ToJint([hi |-> 0, lo |-> 42]))
                               ELSE NoObject]
  /\ crashed = FALSE
  /\ nops = 0
  /\ faults = 0
  /\ freeCalls = [h \in Handles |-> 0]
  /\ last = NoCall
  /\ addrs = Addrs
  /\ inflight = Idle

NextPair ==
  \/ ClientProcessPackets
  \/ HostProcessPackets
  \/ GetLastError

SpecPair == InitPair /\ [][NextPair]_vars

\* ------------------------ specification of the exported native methods
\* The Java classes NeonClientJNI / NeonHostJNI declare the exported entry
\* points as native methods, so a Java thread (bound to the VM by nature)
\* can call them directly, with 0 or with a handle it holds.  Here such
\* calls of the getters and setters mix with calls of the C API functions
\* that wrap them, on a loaded runtime with one client and one host.
MaxNative == 2

NativeClientGetId ==
  /\ CanCall
  /\ \E t \in Threads, h \in Held("client") :
       \E e \in JNI_neonClientGetId(Start(t), h) :
         Commit(t, "jni_client_get_id", h, e)
NativeClientGetSessionId ==
  /\ CanCall
  /\ \E t \in Threads, h \in Held("client") :
       \E e \in JNI_neonClientGetSessionId(Start(t), h) :
         Commit(t, "jni_client_get_session_id", h, e)
NativeHostGetSessionId ==
  /\ CanCall
  /\ \E t \in Threads, h \in Held("host") :
       \E e \in JNI_neonHostGetSessionId(Start(t), h) :
         Commit(t, "jni_host_get_session_id", h, e)
NativeHostGetClientCount ==
  /\ CanCall
  /\ \E t \in Threads, h \in Held("host") :
       \E e \in JNI_neonHostGetClientCount(Start(t), h) :
         Commit(t, "jni_host_get_client_count", h, e)
NativeClientSetAutoPing ==
  /\ CanCall
  /\ \E t \in Threads, h \in Held("client"), on \in {JNI_FALSE, JNI_TRUE} :
       \E e \in JNI_neonClientSetAutoPing(Start(t), h, on) :
         Commit(t, "jni_client_set_auto_ping", h, e)
NativeClientSetCallback ==
  /\ CanCall
  /\ \E t \in Threads, h \in Held("client"), s \in ClientSlots, f \in Callbacks :
       \E e \in JNI_neonClientSetCallback(Start(t), h, s, f) :
         Commit(t, "jni_client_set_callback", h, [e EXCEPT !.args = <<s, f>>])
NativeHostSetCallback ==
  /\ CanCall
  /\ \E t \in Threads, h \in Held("host"), s \in HostSlots, f \in Callbacks :
       \E e \in JNI_neonHostSetCallback(Start(t), h, s, f) :
         Commit(t, "jni_host_set_callback", h, [e EXCEPT !.args = <<s, f>>])

InitNative ==
  /\ g_jvm = 1
  /\ g_neonClientClass = 1
  /\ g_neonHostClass = 1
  /\ g_error_buffer = [t \in Threads |-> ""]
  /\ vmSupports18 = TRUE
  /\ loaded = TRUE
  /\ attached = [t \in Threads |-> TRUE]
  /\ pending = [t \in Threads |-> FALSE]
  /\ handles = [h \in Handles |-> IF h = 1 THEN NewStruct("client", 1)
                                  ELSE IF h = 2 THEN NewStruct("host", 2)
                                  ELSE NoStruct]
  /\ globalRefs = {1, 2}
  /\ jobj = [h \in Handles |-> IF h = 1 THEN NewClientObject
                               ELSE IF h = 2 THEN NewHostObject(ToJint([hi |-> 0, lo |-> 42]))
                               ELSE NoObject]
  /\ crashed = FALSE
  /\ nops = MaxOps - MaxNative
  /\ faults = 0
  /\ freeCalls = [h \in Handles |-> 0]
  /\ last = NoCall
  /\ addrs = Addrs
  /\ inflight = Idle

NextNative ==
  \/ NativeClientGetId
  \/ NativeClientGetSessionId
  \/ NativeHostGetSessionId
  \/ NativeHostGetClientCount
  \/ NativeClientSetAutoPing
  \/ NativeClientSetCallback
  \/ NativeHostSetCallback
  \/ ClientGetId
  \/ ClientGetSessionId
  \/ HostGetSessionId
  \/ HostGetClientCount
  \/ ClientSetAutoPing
  \/ ClientSetCallback
  \/ HostSetCallback

SpecNative == InitNative /\ [][NextNative]_vars

\* ------------------------------ specification of overlapping setter calls
\* Threads call the C API callback setters on one client and one host with
\* no synchronisation, so one call can be between its get_jni_env and its
\* store while another runs.  A setter is two steps here: SetterEnter is the
\* NULL test and get_jni_env, SetterStore the exported entry point with its
\* store handle-><slot>Callback = callback.  The store of a pointer is one
\* aligned word: two stores to one slot that overlap leave one pointer or
\* the other, which the two orders of SetterStore produce.
SetterOp(kind) == IF kind = "client" THEN "client_set_callback"
                  ELSE "host_set_callback"
Inside == {t \in Threads : inflight[t].op # "none"}

SetterEnter ==
  /\ ~crashed /\ nops + Cardinality(Inside) < MaxOps
  /\ \E t \in Threads \ Inside, kind \in {"client", "host"} :
       \E h \in Held(kind) \ {NULL}, s \in Slots(kind), f \in Callbacks :
         \E r \in get_jni_env(t, Start(t)) :
           IF r.ret = NULL
           THEN Commit(t, SetterOp(kind), h, [Return(r, 0) EXCEPT !.args = <<s, f>>])
           ELSE /\ inflight' = [inflight EXCEPT ![t] =
                                  [op |-> SetterOp(kind), h |-> h, slot |-> s, p |-> f]]
                /\ attached' = [attached EXCEPT ![t] = r.att]
                /\ UNCHANGED <<g_jvm, g_neonClientClass, g_neonHostClass,
                               g_error_buffer, vmSupports18, loaded, pending,
                               handles, globalRefs, jobj, crashed, nops, faults,
                               freeCalls, last, addrs>>
SetterStore ==
  \E t \in Inside :
    LET c == inflight[t]
        done == IF c.op = "client_set_callback"
                THEN JNI_neonClientSetCallback(Start(t), c.h, c.slot, c.p)
                ELSE JNI_neonHostSetCallback(Start(t), c.h, c.slot, c.p)
    IN \E e \in done :
         /\ Effect(t, c.op, c.h, [e EXCEPT !.args = <<c.slot, c.p>>])
         /\ inflight' = [inflight EXCEPT ![t] = Outside]

InitRace ==
  /\ g_jvm = 1
  /\ g_neonClientClass = 1
  /\ g_neonHostClass = 1
  /\ g_error_buffer = [t \in Threads |-> ""]
  /\ vmSupports18 = TRUE
  /\ loaded = TRUE
  /\ attached \in [Threads -> BOOLEAN]
  /\ pending = [t \in Threads |-> FALSE]
  /\ handles = [h \in Handles |-> IF h = 1 THEN NewStruct("client", 1)
                                  ELSE IF h = 2 THEN NewStruct("host", 2)
                                  ELSE NoStruct]
  /\ globalRefs = {1, 2}
  /\ jobj = [h \in Handles |-> IF h = 1 THEN NewClientObject
                               ELSE IF h = 2 THEN NewHostObject(ToJint([hi |-> 0, lo |-> 42]))
                               ELSE NoObject]
  /\ crashed = FALSE
  /\ nops = 0
  /\ faults = 0
  /\ freeCalls = [h \in Handles |-> 0]
  /\ last = NoCall
  /\ addrs = Addrs
  /\ inflight = Idle

NextRace ==
  \/ SetterEnter
  \/ SetterStore

SpecRace == InitRace /\ [][NextRace]_vars

\* ------------------------------------ specification of the error buffer
\* The error channel at the level of bytes: g_error_buffer[t] is the array
\* of BufSize bytes, zeroed at program start; a failing call of thread t
\* hands a message to set_error, and neon_get_last_error reads the array.
Filled(c, n) == [i \in 1..n |-> c]
Messages == {Filled("a", n) : n \in {0, 1, BufSize - 2, BufSize - 1, BufSize,
                                       BufSize + 1}}
              \cup {Filled("b", n) : n \in {2, BufSize + 88}}

SetError ==
  /\ CanCall
  /\ \E t \in Threads, m \in Messages :
       /\ g_error_buffer' = [g_error_buffer EXCEPT ![t] = set_error_buffer(@, m)]
       /\ last' = [NoCall EXCEPT !.op = "set_error", !.t = t, !.fail = TRUE,
                                  !.inp = <<m>>]
  /\ nops' = nops + 1
  /\ UNCHANGED <<g_jvm, g_neonClientClass, g_neonHostClass, vmSupports18,
                 loaded, attached, pending, handles, globalRefs, jobj, crashed,
                 faults, freeCalls, addrs, inflight>>
ReadError ==
  /\ CanCall
  /\ \E t \in Threads :
       last' = [NoCall EXCEPT !.op = "get_last_error", !.t = t,
                              !.ret = get_last_error_buffer(g_error_buffer[t])]
  /\ nops' = nops + 1
  /\ UNCHANGED <<g_jvm, g_neonClientClass, g_neonHostClass, g_error_buffer,
                 vmSupports18, loaded, attached, pending, handles, globalRefs,
                 jobj, crashed, faults, freeCalls, addrs, inflight>>

InitError ==
  /\ g_jvm = NULL
  /\ g_neonClientClass = NULL
  /\ g_neonHostClass = NULL
  /\ g_error_buffer = [t \in Threads |-> Filled(NUL, BufSize)]
  /\ vmSupports18 = TRUE
  /\ loaded = FALSE
  /\ attached = [t \in Threads |-> FALSE]
  /\ pending = [t \in Threads |-> FALSE]
  /\ handles = [h \in Handles |-> NoStruct]
  /\ globalRefs = {}
  /\ jobj = [h \in Handles |-> NoObject]
  /\ crashed = FALSE
  /\ nops = MaxOps - 3
  /\ faults = 0
  /\ freeCalls = [h \in Handles |-> 0]
  /\ last = NoCall
  /\ addrs = Addrs
  /\ inflight = Idle

NextError ==
  \/ SetError
  \/ ReadError

SpecError == InitError /\ [][NextError]_vars

\* ------------------------------------------------------------ properties
\* The functions of the C API that take a handle, by what they return.
BoolOps == {"client_connect", "client_is_connected", "client_send_ping",
            "host_start"}
CountOps == {"client_process_packets", "host_process_packets"}
VoidOps == {"client_set_auto_ping", "client_set_callback", "client_free",
            "host_set_callback", "host_free"}
HandleOps == BoolOps \cup CountOps \cup VoidOps \cup
             {"client_get_id", "client_get_session_id", "host_get_session_id",
              "host_get_client_count"}

\* C1: a call with a NULL handle returns the documented sentinel (false for
\* connect, is_connected, send_ping and start, -1 for process_packets, 0 for
\* the getters and the client count), reads no handle struct, uses no JNI
\* function and calls no Java method, whatever the state of the binding.
C1_NullHandle ==
  (last.h = NULL /\ last.op \in HandleOps) =>
    /\ ~last.crash /\ ~last.deref
    /\ last.jni = {} /\ last.managed = {}
    /\ last.op \in BoolOps => last.ret = 0
    /\ last.op \in CountOps => last.ret = -1
    /\ last.op = "client_get_id" => last.ret = 0
    /\ last.op \in {"client_get_session_id", "host_get_session_id"} =>
         last.ret = ToUint32(0)
    /\ last.op = "host_get_client_count" => last.ret = ToSizeT(0)
\* process_packets(NULL) = -1 after the library was unloaded with a handle
\* still live.
C1_Witness ==
  /\ last.op = "client_process_packets" /\ last.h = NULL /\ last.ret = -1
  /\ g_jvm = NULL /\ \E h \in Handles : handles[h].state = "live"

\* C2: the error channel is per thread.  A call changes no buffer but the
\* calling thread's, and that one only when the call fails, to the message of
\* that failure; neon_get_last_error reads the buffer of the thread that calls
\* it, so a thread that has not failed reads none whatever the others did.
C2_ThreadIsolation ==
  [][ /\ \A t \in Threads :
           g_error_buffer'[t] # g_error_buffer[t] =>
             last'.t = t /\ last'.fail /\ g_error_buffer'[t] = last'.msg
      /\ last'.op = "get_last_error" =>
           /\ last'.ret.null = (g_error_buffer[last'.t] = "")
           /\ last'.ret.str = g_error_buffer[last'.t] ]_vars
\* A thread reads none right after process_packets failed on the other one.
C2_Witness ==
  /\ last.op = "get_last_error" /\ last.ret.null
  /\ \E u \in Threads \ {last.t} :
       g_error_buffer[u] \in {"Exception during processPackets",
                              "Failed to attach thread to JVM"}

\* The fixed text "Exception during <operation>" of each forwarding function.
ExceptionText(op) ==
  CASE op = "client_new" -> "Exception during NeonClient"
    [] op = "host_new" -> "Exception during NeonHost"
    [] op = "client_connect" -> "Exception during connect"
    [] op \in CountOps -> "Exception during processPackets"
    [] op = "client_get_id" -> "Exception during getClientId"
    [] op \in {"client_get_session_id", "host_get_session_id"} ->
         "Exception during getSessionId"
    [] op = "client_is_connected" -> "Exception during isConnected"
    [] op = "client_send_ping" -> "Exception during sendPing"
    [] op = "client_set_auto_ping" -> "Exception during setAutoPing"
    [] op = "host_start" -> "Exception during start"
    [] op = "host_get_client_count" -> "Exception during getClientCount"
    [] op \in {"client_free", "host_free"} -> "Exception during close"
    [] OTHER -> ""

\* C3: when the Java method or constructor a call forwards to raises, the
\* call returns with no exception pending on its thread, on its failure path,
\* and with "Exception during <operation>" in the thread's error buffer.
C3_ExceptionsCaught ==
  (last.raised /\ ~last.crash /\ ExceptionText(last.op) # "") =>
    /\ ~pending[last.t]
    /\ last.fail
    /\ last.msg = ExceptionText(last.op)
    /\ g_error_buffer[last.t] = last.msg

\* C4: once every handle a create call returned has been passed to its free
\* function exactly once, the boundary holds no global reference to a managed
\* object and no handle struct is allocated.
C4_NoLeak ==
  (last.op # "none" /\ ~crashed /\
   \A h \in Handles : handles[h].state # "unalloc" => freeCalls[h] = 1) =>
     (globalRefs = {} /\ \A h \in Handles : handles[h].state # "live")

\* C5: no call reads or writes a handle struct that free has deallocated,
\* and no managed reference or struct is released a second time.
C5_NoUseAfterFree == ~last.uaf /\ ~last.dbl

FreeOps == {"client_free", "host_free"}

\* C6: the first free of a handle calls the Java close method, then releases
\* the global reference and deallocates the struct, leaves no exception pending
\* and writes no error message, whether close returns or raises; free(NULL)
\* does nothing.
C6_FreeReleases ==
  (last.op \in FreeOps /\ ~last.crash) =>
    IF last.h = NULL
    THEN last.jni = {} /\ last.managed = {} /\ ~last.deref /\ last.msg = ""
    ELSE freeCalls[last.h] = 1 =>
           ("close" \in last.managed /\ handles[last.h].state = "freed" /\
            last.h \notin globalRefs /\ ~pending[last.t] /\ last.msg = "")

CreateOps == {"client_new", "host_new"}
\* The functions that return a value, and those whose contract records a
\* message on every failure.
ValueOps == CreateOps \cup (HandleOps \ VoidOps)
LoudOps == CreateOps \cup CountOps \cup
           {"client_connect", "client_send_ping", "host_start"}

\* C7 as stated: a call of any value-returning function that returns through
\* a failure exit has written a non-empty message, which is what the
\* thread's buffer holds afterwards.
C7_EveryFailureReported ==
  (last.op \in ValueOps /\ last.fail /\ ~last.crash) =>
    (last.msg # "" /\ g_error_buffer[last.t] = last.msg)

\* C7 amended: for create, connect, process_packets, send_ping and start, a
\* call that returns through a failure exit has written a non-empty message
\* that the thread's buffer then holds; and create returns NULL, and connect,
\* send_ping and start return false, through such an exit only.
C7_LoudFailures ==
  (last.op \in LoudOps /\ ~last.crash) =>
    /\ last.fail => (last.msg # "" /\ g_error_buffer[last.t] = last.msg)
    /\ (last.op \notin CountOps /\ last.ret = 0) => last.fail
\* send_ping fails on a Java exception after an earlier call left another
\* message, and the buffer holds the new one.
C7_Witness ==
  /\ last.op = "client_send_ping" /\ last.ret = 0
  /\ last.msg = "Exception during sendPing"
  /\ g_error_buffer[last.t] = last.msg
  /\ \E u \in Threads \ {last.t} : g_error_buffer[u] = "Invalid client handle"

\* C8: the error buffer of a thread is never emptied.  It is empty until a
\* call of that thread fails and holds a non-empty message from then on; only
\* a failing call of the thread changes it, to the message of that failure; a
\* call that succeeds leaves it as it was; and neon_get_last_error returns
\* NULL exactly while the buffer is empty, the buffer's text otherwise.
C8_NeverCleared ==
  [][ \A t \in Threads :
        /\ g_error_buffer[t] # "" => g_error_buffer'[t] # ""
        /\ g_error_buffer'[t] # g_error_buffer[t] =>
             last'.t = t /\ last'.fail /\ last'.msg # "" /\
             g_error_buffer'[t] = last'.msg
        /\ (last'.t = t /\ ~last'.fail) => g_error_buffer'[t] = g_error_buffer[t]
        /\ (last'.t = t /\ last'.op = "get_last_error") =>
             /\ last'.ret.null = (g_error_buffer[t] = "")
             /\ ~last'.ret.null => last'.ret.str = g_error_buffer[t]
             /\ g_error_buffer'[t] = g_error_buffer[t] ]_vars
\* A create call succeeds on a thread whose buffer holds the message of an
\* earlier failure, and the message is still there.
C8_Witness ==
  /\ last.op = "client_new" /\ ~last.fail /\ last.ret # NULL
  /\ g_error_buffer[last.t] # ""

\* The bytes of a string.
Bytes(s) == {s[i] : i \in 1..Len(s)}
\* s is <one or more non-colon bytes>:<one or more decimal digits>.
WellFormed(s) ==
  \E c \in 2..(Len(s) - 1) :
    /\ s[c] = ":"
    /\ \A i \in 1..(c - 1) : s[i] # ":"
    /\ \A i \in (c + 1)..Len(s) : IsDigit(s[i])
BadFormat == "Invalid relay address format (expected host:port)"
\* The call got as far as scanning the address string.
Scanned ==
  /\ last.op \in {"client_connect", "host_new"} /\ ~last.crash
  /\ "GetStringUTFChars" \in last.jni
  /\ last.msg # "Failed to get relay address string"
\* The call invoked the Java connect method or the NeonHost constructor.
Forwarded == "connect" \in last.managed \/ "<init>" \in last.managed

\* C9: connect and create_host fail with the bad-address-format message for
\* every address string that is not <non-colon bytes>:<decimal digits>.
C9_MalformedRejected ==
  \A s \in addrs :
    (Scanned /\ ~WellFormed(s)) => (last.fail /\ last.msg = BadFormat)

\* C10 as stated: for every host of at most 255 bytes and port in 0..65535
\* the text host:port is accepted, and that host and port are what the Java
\* connect method or NeonHost constructor receives.
C10_RoundTripAnyHost ==
  \A x \in Formatted :
    (Len(x.host) <= HostWidth /\ addrs = {x.text} /\ Scanned) =>
      /\ last.msg # BadFormat
      /\ Forwarded => (last.args[2] = x.host /\ last.args[3] = x.port)

\* C10 amended: the same for hosts of 1 to 255 bytes with no colon in them.
C10_RoundTrip ==
  \A x \in Formatted :
    (/\ Len(x.host) \in 1..HostWidth /\ ":" \notin Bytes(x.host)
     /\ addrs = {x.text} /\ Scanned) =>
      /\ last.msg # BadFormat
      /\ Forwarded => (last.args[2] = x.host /\ last.args[3] = x.port)
\* connect succeeds with a host of 255 bytes and port 65535, both forwarded.
C10_Witness ==
  /\ last.op = "client_connect" /\ last.ret = 1 /\ Forwarded
  /\ last.args[2] = Repeat("a", HostWidth) /\ last.args[3] = 65535

\* C11: every port that connect or create_host hands to the Java connect
\* method or the NeonHost constructor is an integer in 0..65535.
C11_PortInRange ==
  (last.op \in {"client_connect", "host_new"} /\ Forwarded) =>
    last.args[3] \in 0..65535

\* The host field of s is longer than the 255 bytes the scan set takes.
Overlong(s) ==
  Len(s) > HostWidth /\ \A i \in 1..(HostWidth + 1) : s[i] # ":"
\* C12: an address whose host field is longer than 255 non-colon bytes fails
\* with the bad-address-format message in connect and create_host, and
\* nothing is forwarded to the Java side.
C12_OverlongRejected ==
  \A s \in addrs :
    (Scanned /\ Overlong(s)) =>
      (last.fail /\ last.ret = 0 /\ last.msg = BadFormat /\ ~Forwarded)
\* create_host rejected a host of 256 bytes followed by ":80".
C12_Witness ==
  /\ last.op = "host_new" /\ last.ret = NULL /\ last.msg = BadFormat
  /\ addrs = {FormatAddr(Repeat("a", HostWidth + 1), 80)}

\* C13: create_host parses the address before anything else.  Given an
\* address that is not <non-colon bytes>:<decimal digits> it returns NULL
\* with the bad-address-format message, having used no JNI function (no
\* attach, no string creation, no method lookup) and called no constructor.
C13_ParseFirst ==
  \A s \in addrs :
    (last.op = "host_new" /\ ~WellFormed(s)) =>
      /\ ~last.crash /\ last.ret = NULL /\ last.msg = BadFormat
      /\ last.jni = {} /\ last.managed = {}

\* C14: a connect on a live handle that reaches the address scan with an
\* address that is not <non-colon bytes>:<decimal digits> returns false with
\* the bad-address-format message in the calling thread's buffer, does not
\* call the Java connect method, and leaves every handle struct and every
\* held reference as it was.
C14_BadAddressConnect ==
  [][ \A s \in addrs :
        (/\ last'.op = "client_connect" /\ last'.h # NULL
         /\ handles[last'.h].state = "live"
         /\ Scanned' /\ ~WellFormed(s)) =>
          /\ last'.ret = 0 /\ last'.msg = BadFormat
          /\ g_error_buffer'[last'.t] = BadFormat
          /\ "connect" \notin last'.managed
          /\ handles' = handles /\ globalRefs' = globalRefs ]_vars

\* C15: a create call that does not hand out a handle returns NULL with a
\* non-empty message in the calling thread's buffer, and leaves no struct
\* allocated and no global reference held that was not there before; this
\* for every cause of failure, a NULL argument included, whenever the module
\* is not loaded or is loaded with both classes cached.
C15_NoResidue ==
  [][ (/\ last'.op \in CreateOps
       /\ g_jvm = NULL \/ (g_neonClientClass # NULL /\ g_neonHostClass # NULL)
       /\ last'.crash \/ last'.fail \/ last'.ret = NULL) =>
        /\ ~last'.crash /\ last'.ret = NULL
        /\ last'.msg # "" /\ g_error_buffer'[last'.t] = last'.msg
        /\ handles' = handles /\ globalRefs' = globalRefs ]_vars

SetterOps == {"client_set_callback", "host_set_callback"}
\* C16: a callback setter called on a live handle h with slot X and pointer p
\* leaves slot X of h equal to p and everything else (the other slots, the
\* reference h holds, the other handles, the Java objects) as it was, and
\* calls no Java method, whichever thread calls it.
C16_SetterStores ==
  [][ (/\ last'.op \in SetterOps /\ last'.h # NULL
       /\ handles[last'.h].state = "live") =>
        /\ ~last'.crash /\ last'.managed = {}
        /\ handles' = [handles EXCEPT ![last'.h].cb[last'.args[1]] = last'.args[2]]
        /\ globalRefs' = globalRefs /\ jobj' = jobj ]_vars

\* set_auto_ping and the callback setters: the C API functions, and the
\* exported entry points they wrap.
ApiQuietOps == {"client_set_auto_ping", "client_set_callback", "host_set_callback"}
NativeQuietOps == {"jni_client_set_auto_ping", "jni_client_set_callback",
                   "jni_host_set_callback"}
InvalidHandle(op) == IF op \in {"jni_host_set_callback", "jni_host_get_session_id",
                                 "jni_host_get_client_count"}
                     THEN "Invalid host handle" ELSE "Invalid client handle"

\* C17 as stated: set_auto_ping and every callback setter called with no
\* handle, as a C API function or as an exported entry point, changes no
\* handle struct and no Java object, uses no JNI function, calls no Java
\* method, and leaves every thread's error buffer as it was.
C17_SilentNoOp ==
  [][ (last'.op \in ApiQuietOps \cup NativeQuietOps /\ last'.h = NULL) =>
        /\ ~last'.crash /\ ~last'.deref
        /\ last'.jni = {} /\ last'.managed = {}
        /\ handles' = handles /\ globalRefs' = globalRefs /\ jobj' = jobj
        /\ g_error_buffer' = g_error_buffer ]_vars

\* C17 amended: with no handle both layers change no handle struct and no
\* Java object, use no JNI function and call no Java method; the C API
\* function leaves the error buffers as they were, the exported entry point
\* writes "Invalid client handle" / "Invalid host handle" into the calling
\* thread's buffer and leaves the other buffers alone.
C17_NoOpOnNull ==
  [][ (last'.op \in ApiQuietOps \cup NativeQuietOps /\ last'.h = NULL) =>
        /\ ~last'.crash /\ ~last'.deref
        /\ last'.jni = {} /\ last'.managed = {}
        /\ handles' = handles /\ globalRefs' = globalRefs /\ jobj' = jobj
        /\ last'.op \in ApiQuietOps => g_error_buffer' = g_error_buffer
        /\ last'.op \in NativeQuietOps =>
             g_error_buffer' = [g_error_buffer EXCEPT
                                  ![last'.t] = InvalidHandle(last'.op)] ]_vars
\* The exported host setter was called with no handle on a thread whose
\* buffer then holds the message, after a C API setter stored a pointer.
C17_Witness ==
  /\ last.op = "jni_host_set_callback" /\ last.h = NULL
  /\ g_error_buffer[last.t] = "Invalid host handle"
  /\ \E s \in ClientSlots : handles[1].cb[s] # NULL

\* C18 as stated: with no handle, get-id and the two get-session-id return
\* -1 (as their return type holds it) and get-client-count returns 0, at the
\* exported entry points and at the C API functions alike.
C18_MinusOne ==
  last.h = NULL =>
    /\ last.op \in {"jni_client_get_id", "jni_client_get_session_id",
                    "jni_host_get_session_id"} => last.ret = -1
    /\ last.op = "jni_host_get_client_count" => last.ret = 0
    /\ last.op = "client_get_id" => last.ret = ToUint8(-1)
    /\ last.op \in {"client_get_session_id", "host_get_session_id"} =>
         last.ret = ToUint32(-1)
    /\ last.op = "host_get_client_count" => last.ret = ToSizeT(0)

\* C18 amended: with no handle the exported entry points return -1 for
\* get-id and get-session-id and 0 for get-client-count and record the
\* invalid-handle message; the C API functions return 0 for all four and
\* record nothing.
C18_Sentinels ==
  last.h = NULL =>
    /\ last.op \in {"jni_client_get_id", "jni_client_get_session_id",
                    "jni_host_get_session_id"} =>
         (last.ret = -1 /\ last.msg = InvalidHandle(last.op))
    /\ last.op = "jni_host_get_client_count" =>
         (last.ret = 0 /\ last.msg = InvalidHandle(last.op))
    /\ last.op = "client_get_id" => (last.ret = 0 /\ last.msg = "")
    /\ last.op \in {"client_get_session_id", "host_get_session_id"} =>
         (last.ret = ToUint32(0) /\ last.msg = "")
    /\ last.op = "host_get_client_count" =>
         (last.ret = ToSizeT(0) /\ last.msg = "")
\* The exported get-id entry point returned -1 for no handle.
C18_Witness ==
  /\ last.op = "jni_client_get_id" /\ last.h = NULL /\ last.ret = -1
  /\ g_error_buffer[last.t] = "Invalid client handle"

\* The value op returns when it fails before reaching its entry point.
IsSentinel(op, ret) ==
  CASE op \in CreateOps -> ret = NULL
    [] op \in BoolOps -> ret = 0
    [] op \in CountOps -> ret = -1
    [] op = "client_get_id" -> ret = 0
    [] op \in {"client_get_session_id", "host_get_session_id"} -> ret = ToUint32(0)
    [] op = "host_get_client_count" -> ret = ToSizeT(0)
    [] OTHER -> TRUE

\* C19: a create call, or a call with a non-NULL handle, made while g_jvm is
\* NULL (before JNI_OnLoad, after JNI_OnUnload) returns its sentinel with
\* "JVM not initialized" in the calling thread's buffer, having read no
\* handle struct, used no JNI function and called no Java method; when the
\* VM refuses to attach the thread the call returns its sentinel with
\* "Failed to attach thread to JVM", again with no handle read and no Java
\* method called.
C19_Unbound ==
  (last.op \in CreateOps \cup HandleOps /\ (last.op \in CreateOps \/ last.h # NULL)) =>
    /\ g_jvm = NULL =>
         /\ ~last.crash /\ last.fail /\ last.msg = "JVM not initialized"
         /\ g_error_buffer[last.t] = last.msg
         /\ ~last.deref /\ last.jni = {} /\ last.managed = {}
         /\ IsSentinel(last.op, last.ret)
    /\ ("AttachCurrentThread" \in last.jni /\ ~attached[last.t] /\ ~last.crash) =>
         /\ last.fail /\ last.msg = "Failed to attach thread to JVM"
         /\ g_error_buffer[last.t] = last.msg
         /\ ~last.deref /\ last.managed = {}
         /\ last.jni = {"GetEnv", "AttachCurrentThread"}
         /\ IsSentinel(last.op, last.ret)
\* send_ping on a live handle after the library was unloaded.
C19_Witness ==
  /\ last.op = "client_send_ping" /\ last.h # NULL /\ g_jvm = NULL
  /\ handles[last.h].state = "live" /\ last.ret = 0
  /\ g_error_buffer[last.t] = "JVM not initialized"

\* C20: a thread is attached once and never detached.  No call clears
\* attached[t]; only a call of thread t that uses AttachCurrentThread sets
\* it; AttachCurrentThread is used only by a thread that is not attached;
\* and a call that asks for the environment of an unattached thread leaves
\* the thread attached unless the attach was refused.
C20_AttachOnce ==
  [][ /\ \A t \in Threads :
           /\ attached[t] => attached'[t]
           /\ (attached'[t] /\ ~attached[t]) =>
                (last'.t = t /\ "AttachCurrentThread" \in last'.jni)
      /\ "AttachCurrentThread" \in last'.jni => ~attached[last'.t]
      /\ ("GetEnv" \in last'.jni /\ ~last'.crash /\ vmSupports18) =>
           (attached'[last'.t] \/ last'.msg = "Failed to attach thread to JVM") ]_vars
\* A thread attached by an earlier call makes another call, which asks
\* GetEnv and does not attach again; the other thread is attached as well.
C20_Witness ==
  /\ last.op = "client_process_packets" /\ ~last.fail
  /\ "GetEnv" \in last.jni /\ "AttachCurrentThread" \notin last.jni
  /\ \A t \in Threads : attached[t]

\* The reference a live handle holds is one the boundary still owns.
Pinned(h) == handles[h].state = "live" /\ handles[h].javaObject \in globalRefs

\* C21: the boundary keeps no protocol state.  is_connected on a live
\* handle whose Java call returned gives the object's connected value as it
\* is at the call; connect returns true exactly when the Java connect method
\* was called and did not raise; and only a callback setter or a free of a
\* handle changes a field of that handle.
C21_Stateless ==
  [][ /\ (/\ last'.op = "client_is_connected" /\ ~last'.crash
           /\ last'.h # NULL /\ Pinned(last'.h)
           /\ "isConnected" \in last'.managed /\ ~last'.raised) =>
            last'.ret = (IF jobj[handles[last'.h].javaObject].connected
                         THEN 1 ELSE 0)
      /\ (last'.op = "client_connect" /\ ~last'.crash) =>
            (last'.ret = 1 <=> ("connect" \in last'.managed /\ ~last'.raised))
      /\ \A h \in Handles :
            (/\ handles[h].state = "live"
             /\ ~(last'.op \in SetterOps \cup FreeOps /\ last'.h = h)) =>
              handles'[h] = handles[h] ]_vars

\* C23: neon_client_get_id and neon_client_get_session_id return 0 whenever
\* the Java getter was not called (no handle, no binding, attach refused,
\* method not found).
C23_ZeroOnFailure ==
  /\ (/\ last.op = "client_get_id" /\ ~last.crash
       /\ "getClientId" \notin last.managed) => last.ret = 0
  /\ (/\ last.op = "client_get_session_id" /\ ~last.crash
       /\ "getSessionId" \notin last.managed) => last.ret = ToUint32(0)

\* C24: a handle a create call returns has every callback slot NULL and
\* holds a non-NULL global reference no other handle holds; while the handle
\* stays live no call changes that reference or releases it.
C24_OneReference ==
  [][ /\ (last'.op \in CreateOps /\ ~last'.crash /\ last'.ret # NULL) =>
            /\ handles'[last'.ret].state = "live"
            /\ \A sl \in Slots(handles'[last'.ret].kind) :
                 handles'[last'.ret].cb[sl] = NULL
            /\ handles'[last'.ret].javaObject # NULL
            /\ handles'[last'.ret].javaObject \in globalRefs'
            /\ \A g \in Handles \ {last'.ret} :
                 handles'[g].state = "live" =>
                   handles'[g].javaObject # handles'[last'.ret].javaObject
      /\ \A h \in Handles :
            (handles[h].state = "live" /\ handles'[h].state = "live") =>
              /\ handles'[h].javaObject = handles[h].javaObject
              /\ handles[h].javaObject \in globalRefs =>
                   handles[h].javaObject \in globalRefs' ]_vars

\* C25: in every state g_jvm is non-NULL exactly when both cached class
\* references are non-NULL.
C25_AllOrNothing ==
  (g_jvm # NULL) <=> (g_neonClientClass # NULL /\ g_neonHostClass # NULL)

\* C27: a C API callback setter on a live handle stores its pointer, and
\* set_auto_ping on a live handle calls the Java setAutoPing method (if the
\* method is found), on every call from every thread, bound to the runtime
\* or not.
C27_TakesEffect ==
  [][ (last'.h # NULL /\ handles[last'.h].state = "live" /\ ~last'.crash) =>
        /\ last'.op \in SetterOps =>
             handles'[last'.h].cb[last'.args[1]] = last'.args[2]
        /\ last'.op = "client_set_auto_ping" =>
             \/ "setAutoPing" \in last'.managed
             \/ last'.msg = "Failed to find setAutoPing method" ]_vars

\* C28: a C API call with a NULL handle returns before get_jni_env: it uses
\* neither GetEnv nor AttachCurrentThread, leaves every thread's attachment
\* as it was, and the only message it can record is the invalid-handle one.
C28_NullFirst ==
  [][ (last'.op \in HandleOps /\ last'.h = NULL) =>
        /\ ~last'.crash /\ last'.jni = {}
        /\ attached' = attached
        /\ last'.msg \in {"", "Invalid client handle", "Invalid host handle"}
        /\ g_error_buffer'[last'.t] \in
             {g_error_buffer[last'.t], "Invalid client handle", "Invalid host handle"}
      ]_vars
\* neon_host_start(NULL) on an unattached thread before the module is loaded.
C28_Witness ==
  /\ last.op = "host_start" /\ last.h = NULL /\ last.ret = 0
  /\ g_jvm = NULL /\ ~attached[last.t]
  /\ g_error_buffer[last.t] = "Invalid host handle"

\* C22: session ids cross the boundary unchanged over the whole uint32_t
\* range.  When connect(h, s, addr) or create_host(s, addr) succeeds the
\* Java object holds the jint with the 32 bits of s, and get_session_id
\* returns the 32 bits of the jint the Java object holds, so a get after a
\* successful connect or create returns s, for s >= 2^31 as well.
C22_SessionRoundTrip ==
  [][ /\ (/\ last'.op = "client_connect" /\ ~last'.crash /\ last'.ret = 1
           /\ Pinned(last'.h)) =>
            ToUint32(jobj'[handles[last'.h].javaObject].session) = last'.inp[1]
      /\ (/\ last'.op = "host_new" /\ ~last'.crash /\ last'.ret # NULL
           /\ handles'[last'.ret].javaObject \in globalRefs') =>
            ToUint32(jobj'[handles'[last'.ret].javaObject].session) = last'.inp[1]
      /\ (/\ last'.op \in {"client_get_session_id", "host_get_session_id"}
           /\ ~last'.crash /\ last'.h # NULL /\ Pinned(last'.h)
           /\ "getSessionId" \in last'.managed /\ ~last'.raised) =>
            last'.ret = ToUint32(jobj[handles[last'.h].javaObject].session)
    ]_vars
\* get_session_id returns 4294967295 from a client that connected with it.
C22_Witness ==
  /\ last.op = "client_get_session_id" /\ last.h # NULL /\ Pinned(last.h)
  /\ "getSessionId" \in last.managed /\ ~last.raised
  /\ jobj[handles[last.h].javaObject].session = -1
  /\ last.ret = [hi |-> 65535, lo |-> 65535]

Kept(m) == SubSeq(m, 1, IF Len(m) < BufSize - 1 THEN Len(m) ELSE BufSize - 1)
Terminated(buf) == Len(buf) = BufSize /\ \E i \in 1..BufSize : buf[i] = NUL

====
